---- MODULE Spec2Model ----
(***************************************************************************)
(* Model of the sshoc-nl-ontology scripts:                                 *)
(*   visualOWL.py        the Dash knowledge-graph explorer                 *)
(*   GenerateOWLfile.py  generate_owl_ontology (JSON bindings -> OWL)       *)
(*   GenerateOWLFile2.py run_sparql_query_and_build_graph                  *)
(* Python strings are sequences of one-character strings, so that          *)
(* splitting, lower-casing and substring tests are computed as the code    *)
(* computes them.                                                          *)
(***************************************************************************)
EXTENDS Naturals, Integers, Sequences, FiniteSets, TLC

VARIABLES
    world,        \* the triples the outside world serves (endpoint or file), in iteration order
    data_source,  \* visualOWL.py: the module-level dict data_source
    shown,        \* the 'elements' property of the cytoscape-graph component
    ret,          \* what the last callback returned
    options,      \* the options of the search-input dropdown (from class-labels-store)
    calls,        \* the external requests the last callback made
    fetched,      \* the get_related_nodes_for_expansion calls of the last tap: <<node_id, raised, result>>
    history,      \* when kept (history.on): what the endpoint does with a fetch, and the
                  \* expanded nodes, the elements on display and the node of the tap
                  \* that had just returned them, as they were before the last tap
    race,         \* two display_related_nodes invocations served at once: where each
                  \* stands (pc) and its locals; race.on is FALSE when callbacks run one by one
    owl_bindings, \* GenerateOWLfile.py: the bindings of json_data the loop has read
    owl_g,        \* GenerateOWLfile.py: the graph g
    owl_pc,       \* GenerateOWLfile.py: "loop", "done" (returned) or "raised"
    o2_pc,        \* GenerateOWLFile2.py: "start", "map", "done" (returned) or "raised"
    o2_http,      \* GenerateOWLFile2.py: the request: "" (not sent), "ok" or "failed"
    o2_n,         \* GenerateOWLFile2.py: the number of rows of the response
    o2_i,         \* GenerateOWLFile2.py: the rows mapped so far
    o2_row,       \* GenerateOWLFile2.py: the row mapped last
    o2_adds,      \* GenerateOWLFile2.py: the triples g.add was called with for that row
    o2_g,         \* GenerateOWLFile2.py: the graph g
    o2_written,   \* GenerateOWLFile2.py: how often SSHOC-NL_ontology.owl was written
    o2_ret        \* GenerateOWLFile2.py: the return value ("None", "True", "False"), "" before

explorer_vars == <<world, data_source, shown, options, ret, calls, fetched, history, race>>
owl_vars == <<owl_bindings, owl_g, owl_pc>>
o2_vars == <<o2_pc, o2_http, o2_n, o2_i, o2_row, o2_adds, o2_g, o2_written, o2_ret>>
vars == <<explorer_vars, owl_vars, o2_vars>>

(***************************************************************************)
(* Bounds of the model.                                                    *)
(***************************************************************************)
MaxTriples == 1       \* triples in the graph the explorer is run on
MaxExpanded == 2      \* nodes expanded at the same time
MaxLabelTriples == 2  \* triples in the graph that is loaded and searched
MaxFetchTriples == 2
MaxTapTriples == 2  \* triples in the graph whose neighbours are fetched
MaxTopTriples == 4    \* triples in the graph whose most frequent nodes are taken
MaxBindings == 2      \* bindings of the JSON data given to generate_owl_ontology
MaxRows == 2          \* rows of the SPARQL response

(***************************************************************************)
(* Python str helpers.                                                     *)
(***************************************************************************)
Range(s) == {s[i] : i \in 1..Len(s)}

\* the one member of a singleton set; with a set { e : x \in {v} } it names
\* the value of v once, as an assignment to a local does
The(S) == CHOOSE x \in S : TRUE

Uppers == <<"A","B","C","D","E","F","G","H","I","J","K","L","M",
            "N","O","P","Q","R","S","T","U","V","W","X","Y","Z">>
Lowers == <<"a","b","c","d","e","f","g","h","i","j","k","l","m",
            "n","o","p","q","r","s","t","u","v","w","x","y","z">>
Digits == {"0","1","2","3","4","5","6","7","8","9"}

\* one character of str.lower()
LowerChar(c) ==
    The({ IF \E i \in 1..Len(Uppers) : Uppers[i] = ch
          THEN Lowers[CHOOSE i \in 1..Len(Uppers) : Uppers[i] = ch]
          ELSE ch : ch \in {c} })

\* str.lower()
Lower(s) == The({ [i \in 1..Len(t) |-> LowerChar(t[i])] : t \in {s} })

\* needle in s
Contains(needle, s) ==
    \E n \in {needle}, t \in {s} :
        \E i \in 1..(Len(t) + 1) :
            /\ i + Len(n) - 1 <= Len(t)
            /\ SubSeq(t, i, i + Len(n) - 1) = n

\* s.find(c): index of the first c at or after position from, 0 when there is none
Find(s, c, from) ==
    The({ IF \E i \in f..Len(t) : t[i] = c
          THEN CHOOSE i \in f..Len(t) : t[i] = c /\ \A j \in f..(i - 1) : t[j] # c
          ELSE 0 : t \in {s}, f \in {from} })

\* s.rfind(c): index of the last c, 0 when there is none
RFind(s, c) ==
    The({ IF \E i \in 1..Len(t) : t[i] = c
          THEN CHOOSE i \in 1..Len(t) : t[i] = c /\ \A j \in (i + 1)..Len(t) : t[j] # c
          ELSE 0 : t \in {s} })

\* s.split(c)[-1]
LastPart(s, c) == The({ SubSeq(t, RFind(t, c) + 1, Len(t)) : t \in {s} })

\* s.replace(c, d) for single characters
Replace(s, c, d) == The({ [i \in 1..Len(t) |-> IF t[i] = c THEN d ELSE t[i]] : t \in {s} })

\* xs[:n]
Take(xs, n) == The({ SubSeq(ys, 1, IF Len(ys) < n THEN Len(ys) ELSE n) : ys \in {xs} })

\* visualOWL.py get_name: a human-readable name from a URI
get_name(uri) ==
    The({ IF "#" \in Range(last_part)
          THEN Replace(Replace(LastPart(last_part, "#"), "_", " "), "-", " ")
          ELSE Replace(Replace(last_part, "_", " "), "-", " ")
          : last_part \in {LastPart(uri, "/")} })

(***************************************************************************)
(* urllib.parse.urlparse, as load_data uses it: urlsplit takes the scheme, *)
(* the netloc, the fragment and the query off the URL in this order, and   *)
(* urlparse then takes the params off the last segment of the path.        *)
(***************************************************************************)
SchemeChars == Range(Uppers) \cup Range(Lowers) \cup Digits \cup {"+", "-", "."}
Letters == Range(Uppers) \cup Range(Lowers)
UsesParams == {<<>>, <<"f","t","p">>, <<"h","t","t","p">>, <<"h","t","t","p","s">>}

\* url[:i] is a scheme: a letter, then scheme characters
split_scheme(url) ==
    The({ IF /\ colon > 1
             /\ url[1] \in Letters
             /\ \A i \in 1..(colon - 1) : url[i] \in SchemeChars
          THEN [scheme |-> Lower(SubSeq(url, 1, colon - 1)),
                url |-> SubSeq(url, colon + 1, Len(url))]
          ELSE [scheme |-> <<>>, url |-> url]
          : colon \in {Find(url, ":", 1)} })

\* url[:2] == '//': the netloc runs to the first of / ? #
split_netloc(url) ==
    IF Len(url) >= 2 /\ SubSeq(url, 1, 2) = <<"/", "/">>
    THEN The({ [netloc |-> SubSeq(url, 3, delim - 1), url |-> SubSeq(url, delim, Len(url))]
               : delim \in { IF \E i \in 3..Len(url) : url[i] \in {"/", "?", "#"}
                             THEN CHOOSE i \in 3..Len(url) :
                                    /\ url[i] \in {"/", "?", "#"}
                                    /\ \A j \in 3..(i - 1) : url[j] \notin {"/", "?", "#"}
                             ELSE Len(url) + 1 } })
    ELSE [netloc |-> <<>>, url |-> url]

\* url.split(c, 1): what stands before the first c, and what stands after it
split_first(url, c) ==
    The({ IF at > 0
          THEN [url |-> SubSeq(url, 1, at - 1), tail |-> SubSeq(url, at + 1, Len(url))]
          ELSE [url |-> url, tail |-> <<>>]
          : at \in {Find(url, c, 1)} })

\* _splitparams: the params follow the first ; of the last path segment
split_params(scheme, url) ==
    The({ IF scheme \in UsesParams /\ semi > 0
          THEN [path |-> SubSeq(url, 1, semi - 1), params |-> SubSeq(url, semi + 1, Len(url))]
          ELSE [path |-> url, params |-> <<>>]
          : semi \in { IF "/" \in Range(url)
                       THEN Find(url, ";", RFind(url, "/"))
                       ELSE Find(url, ";", 1) } })

urlparse(uri) ==
    The({ The({ The({ The({ The({
        [scheme |-> s.scheme, netloc |-> n.netloc, path |-> p.path,
         params |-> p.params, query |-> q.tail, fragment |-> f.tail]
        : p \in {split_params(s.scheme, q.url)} })
        : q \in {split_first(f.url, "?")} })
        : f \in {split_first(n.url, "#")} })
        : n \in {split_netloc(s.url)} })
        : s \in {split_scheme(uri)} })

sparql == <<"s","p","a","r","q","l">>

\* a slip: the test applied to the whole URI
IsSparqlUri_whole(uri) == Contains(sparql, Lower(uri))

\* line 37: the test that selects the SPARQL branch of load_data
IsSparqlUri(uri) ==
    \E parsed_uri \in {urlparse(uri)} :
        \/ Contains(sparql, Lower(parsed_uri.path))
        \/ Contains(sparql, Lower(parsed_uri.query))

(***************************************************************************)
(* RDF terms and triples (rdflib).  A term is a URIRef, a BNode or a       *)
(* Literal; terms of different kinds are never equal.  A graph is kept as  *)
(* the sequence of its (pairwise distinct) triples in iteration order.     *)
(***************************************************************************)
URIRef(v) == [kind |-> "uri", v |-> v]
BNode(v) == [kind |-> "bnode", v |-> v]
Literal(v) == [kind |-> "lit", v |-> v]
str(t) == t.v

RDF_type == URIRef(<<"r","d","f","#","t","y","p","e">>)
RDFS_label == URIRef(<<"r","d","f","s","#","l","a","b","e","l">>)
RDFS_Class == URIRef(<<"r","d","f","s","#","C","l","a","s","s">>)

\* the nodes, labels and triples the served graphs are built from
nA == URIRef(<<"n","/","a">>)
nB == URIRef(<<"n","/","b">>)
nC == URIRef(<<"n","#","c","_","d">>)
nD == URIRef(<<"n","/","d">>)
nE == URIRef(<<"n","/","e">>)
nF == URIRef(<<"n","/","f">>)
bN == BNode(<<"N","1">>)
rel == URIRef(<<"n","/","r","-","e","l">>)

\* graphs to explore: a class, a label, a chain of two edges
TripleU ==
    { <<nA, RDFS_label, Literal(<<"c","a","t","s">>)>>,
      <<nA, RDF_type, RDFS_Class>>,
      <<nA, rel, nB>>,
      <<nB, rel, nC>> }

\* graphs to search: labels that differ in case and length, on a URI and on a blank node
LabelTripleU ==
    { <<bN, RDFS_label, Literal(<<"c","a","t">>)>>,
      <<bN, RDFS_label, Literal(<<"C","a","t","s">>)>>,
      <<nA, RDFS_label, Literal(<<"c","a","t","s">>)>>,
      <<nA, RDFS_label, Literal(<<"d","o","g">>)>>,
      <<nA, RDF_type, RDFS_Class>>,
      <<nA, rel, nB>> }

\* graphs to count: up to eight nodes, literal and blank-node objects
TopTripleU ==
    { <<nA, rel, nB>>,
      <<nA, rel, nC>>,
      <<nC, rel, nD>>,
      <<nE, rel, nF>>,
      <<bN, rel, nA>>,
      <<nD, RDFS_label, Literal(<<"d","o","g">>)>>,
      <<nF, rel, bN>> }

\* the sequences of pairwise distinct elements of S of length at most n
DistinctSeqs(S, n) ==
    UNION { {q \in [1..k -> S] : \A i, j \in 1..k : i # j => q[i] # q[j]} : k \in 0..n }

Worlds == DistinctSeqs(TripleU, MaxTriples)
LabelWorlds == DistinctSeqs(LabelTripleU, MaxLabelTriples)
FetchWorlds == DistinctSeqs(TripleU, MaxFetchTriples)
TopWorlds == DistinctSeqs(TopTripleU, MaxTopTriples)

(***************************************************************************)
(* Cytoscape elements.                                                     *)
(***************************************************************************)
NodeElem(id, label, classes) == [data |-> [id |-> id, label |-> label], classes |-> classes]
EdgeElem(source, target, label) == [data |-> [source |-> source, target |-> target, label |-> label]]
HasId(elem) == "id" \in DOMAIN elem.data

\* {elem['data']['id'] for elem in elements if 'id' in elem['data']}
IdsOf(elements) == {elements[i].data.id : i \in {j \in 1..Len(elements) : HasId(elements[j])}}

(***************************************************************************)
(* get_initial_sparql_nodes: the endpoint's answer to                      *)
(*   SELECT ?class WHERE { ?class a rdfs:Class } LIMIT 5                   *)
(* over its triples, one solution per matching triple.                     *)
(***************************************************************************)
InitialLimit == 5

IsClassTriple(t) == t[2] = RDF_type /\ t[3] = RDFS_Class

get_initial_sparql_nodes(store) ==
    LET bindings == Take(SelectSeq(store, IsClassTriple), InitialLimit)
    IN  [i \in 1..Len(bindings) |->
            NodeElem(str(bindings[i][1]), get_name(str(bindings[i][1])), "node")]

\* get_all_sparql_class_labels: SELECT DISTINCT ?label of the rdfs:Class entities
get_all_sparql_class_labels(store) ==
    {str(store[j][3]) : j \in {k \in 1..Len(store) :
        /\ store[k][2] = RDFS_label
        /\ \E c \in 1..Len(store) : IsClassTriple(store[c]) /\ store[c][1] = store[k][1]}}

\* get_all_file_class_labels: list(set(labels)); the list's order is left open, its members kept
get_all_file_class_labels(g) ==
    {str(g[j][3]) : j \in {k \in 1..Len(g) : g[k][2] = RDFS_label /\ g[k][3].kind = "lit"}}

(***************************************************************************)
(* get_initial_file_nodes: collections.Counter and most_common(5).         *)
(* A Counter is the sequence of its <<key, count>> items in insertion      *)
(* order.                                                                   *)
(***************************************************************************)
MostCommonN == 5

CounterInc(counter, k) ==
    IF \E i \in 1..Len(counter) : counter[i][1] = k
    THEN LET i == CHOOSE i \in 1..Len(counter) : counter[i][1] = k
         IN  [counter EXCEPT ![i] = <<k, counter[i][2] + 1>>]
    ELSE Append(counter, <<k, 1>>)

RECURSIVE NodeCounts(_, _, _)
NodeCounts(g, i, counter) ==
    IF i > Len(g) THEN counter
    ELSE LET c1 == CounterInc(counter, g[i][1])
             c2 == IF g[i][3].kind = "uri" THEN CounterInc(c1, g[i][3]) ELSE c1
         IN  NodeCounts(g, i + 1, c2)

\* a slip: the first n items, unsorted
most_common_unsorted(items, n) == Take(items, n)

\* Counter.most_common(n): sorted(items, key=count, reverse=True)[:n], ties in insertion order
RECURSIVE most_common(_, _)
most_common(items, n) ==
    IF n = 0 \/ Len(items) = 0 THEN <<>>
    ELSE LET i == CHOOSE i \in 1..Len(items) :
                    /\ \A j \in 1..Len(items) : items[j][2] <= items[i][2]
                    /\ \A j \in 1..(i - 1) : items[j][2] < items[i][2]
             rest == [j \in 1..(Len(items) - 1) |-> IF j < i THEN items[j] ELSE items[j + 1]]
         IN  <<items[i]>> \o most_common(rest, n - 1)

get_initial_file_nodes(g) ==
    LET node_counts == NodeCounts(g, 1, <<>>)
        most_frequent == most_common(node_counts, MostCommonN)
    IN  [i \in 1..Len(most_frequent) |->
            NodeElem(str(most_frequent[i][1]), get_name(str(most_frequent[i][1])), "node")]

(***************************************************************************)
(* get_related_nodes_for_expansion.                                        *)
(***************************************************************************)
literal_prefix == <<"l","i","t","e","r","a","l","-">>

\* lines 189-200: the elements one triple contributes
TripleElements(t) ==
    LET s_uri == str(t[1])
    IN  IF t[3].kind = "uri"
        THEN << NodeElem(s_uri, get_name(str(t[1])), "node"),
                NodeElem(str(t[3]), get_name(str(t[3])), "node"),
                EdgeElem(s_uri, str(t[3]), get_name(str(t[2]))) >>
        ELSE LET literal_id == literal_prefix \o s_uri \o <<"-">> \o str(t[2]) \o <<"-">> \o str(t[3])
             IN  << NodeElem(s_uri, get_name(str(t[1])), "node"),
                    NodeElem(literal_id, str(t[3]), "literal"),
                    EdgeElem(s_uri, literal_id, get_name(str(t[2]))) >>

RECURSIVE ElementsOf(_)
ElementsOf(triples) ==
    IF Len(triples) = 0 THEN <<>>
    ELSE TripleElements(Head(triples)) \o ElementsOf(Tail(triples))

\* lines 184-186: g.triples((node, None, None)) + g.triples((None, None, node))
FileNeighbourTriples(g, node_id) ==
    LET n == URIRef(node_id)
        IsSubj(t) == t[1] = n
        IsObj(t) == t[3] = n
    IN  SelectSeq(g, IsSubj) \o SelectSeq(g, IsObj)

\* lines 159-181: the results of the two CONSTRUCT queries are dropped; the
\* triples come from temp_g.triples((None, None, None)), the store's answer
\* to the pattern ?s ?p ?o.  answer is what the endpoint does with it:
\* "all" (every triple it holds), "empty" (it scopes the pattern to the
\* graph's own fresh identifier, which holds nothing) or "raise".
SparqlStoreTriples(store, node_id, answer) ==
    IF answer = "all" THEN store ELSE <<>>

\* what the store can answer, and whether a fetch can succeed at all
StoreAnswers(ds) ==
    IF ds.type = "sparql" THEN {"all", "empty"}
    ELSE IF ds.type = "file" /\ ds.has_graph THEN {"ok"}
    ELSE {}

get_related_nodes_for_expansion(ds, store, node_id, answer) ==
    IF answer = "raise" THEN [raised |-> TRUE, elements |-> <<>>]
    ELSE IF ds.type = "sparql"
    THEN [raised |-> FALSE, elements |-> ElementsOf(SparqlStoreTriples(store, node_id, answer))]
    ELSE [raised |-> FALSE, elements |-> ElementsOf(FileNeighbourTriples(ds.graph, node_id))]

(***************************************************************************)
(* Callback outputs.  A callback returns one value per Output; a value is  *)
(* dash.no_update (upd = FALSE) or a new value.  An Output the callback    *)
(* does not have is reported as not updated.                               *)
(***************************************************************************)
Out(v) == [upd |-> TRUE, val |-> v]
no_update_list == [upd |-> FALSE, val |-> <<>>]
no_update_text == [upd |-> FALSE, val |-> ""]
no_update_labels == [upd |-> FALSE, val |-> {}]

None == <<>>     \* None and '' alike: the code only tests them with "not"

(***************************************************************************)
(* load_data.  outcome is what the outside world does with the requests.   *)
(***************************************************************************)
uri_sparql == <<"h","t","t","p",":","/","/","e","/","s","p","a","r","q","l">>
uri_file == <<"h","t","t","p",":","/","/","e","/","f",".","o","w","l">>
LoadURIs == {uri_sparql, uri_file}

\* URIs with 'sparql' in other places and cases
AllURIs ==
    LoadURIs \cup
    { <<"h","t","t","p",":","/","/","e","/","S","p","a","r","Q","L","/","x">>,
      <<"h","t","t","p",":","/","/","e","/","q","?","s","p","a","r","q","l","=","1">>,
      <<"h","t","t","p",":","/","/","s","p","a","r","q","l","/","f">>,
      <<"h","t","t","p",":","/","/","e","/","f","#","s","p","a","r","q","l">>,
      <<"h","t","t","p",":","/","/","e","/","f",";","s","p","a","r","q","l">>,
      <<"h","t","t","p",":","/","/","e","/","s","p","a","r","/","q","l">>,
      <<"s","p","a","r","q","l",":","/","/","e","/","f">>,
      <<"s","p","a","r","q","l",".","o","w","l">> }

LoadOutcomes(uri) ==
    IF IsSparqlUri(uri) THEN {"ok", "labels_fail", "http_error", "bad_result"}
    ELSE {"ok", "parse_fail"}

\* lines 37-53
load_data_sparql(ds, store, uri, outcome) ==
    LET ds1 == [ds EXCEPT !.type = "sparql", !.uri = uri]
        elements == get_initial_sparql_nodes(store)
        class_labels == IF outcome = "ok" THEN get_all_sparql_class_labels(store) ELSE {}
    IN  IF outcome = "http_error"
        THEN [ds |-> ds1, elements |-> <<>>, message |-> "HTTP error from endpoint",
              class_labels |-> {}, calls |-> {"GET initial nodes"}]
        ELSE IF outcome = "bad_result"
        THEN [ds |-> ds1, elements |-> <<>>, message |-> "Error processing SPARQL result",
              class_labels |-> {}, calls |-> {"GET initial nodes"}]
        ELSE [ds |-> [ds1 EXCEPT !.initial_elements = elements,
                                 !.expanded_nodes = {},
                                 !.class_labels = class_labels],
              elements |-> elements, message |-> "", class_labels |-> class_labels,
              calls |-> {"GET initial nodes", "GET class labels"}]

\* a slip: the parsed graph's initial elements are returned and never stored
load_data_file_unstored(ds, store, uri, outcome) ==
    The({ IF outcome = "parse_fail"
          THEN [ds |-> ds1, elements |-> <<>>, message |-> "Error loading data from file URI",
                class_labels |-> {}, calls |-> {"parse"}]
          ELSE [ds |-> [ds1 EXCEPT !.graph = store, !.has_graph = TRUE, !.expanded_nodes = {}],
                elements |-> get_initial_file_nodes(store), message |-> "",
                class_labels |-> get_all_file_class_labels(store), calls |-> {"parse"}]
          : ds1 \in {[ds EXCEPT !.type = "file", !.uri = uri]} })

\* lines 55-71
load_data_file(ds, store, uri, outcome) ==
    LET ds1 == [ds EXCEPT !.type = "file", !.uri = uri]
        g == store
        elements == get_initial_file_nodes(g)
        class_labels == get_all_file_class_labels(g)
    IN  IF outcome = "parse_fail"
        THEN [ds |-> ds1, elements |-> <<>>, message |-> "Error loading data from file URI",
              class_labels |-> {}, calls |-> {"parse"}]
        ELSE [ds |-> [ds1 EXCEPT !.graph = g, !.has_graph = TRUE,
                                 !.initial_elements = elements,
                                 !.expanded_nodes = {},
                                 !.class_labels = class_labels],
              elements |-> elements, message |-> "", class_labels |-> class_labels,
              calls |-> {"parse"}]

load_data(ds, store, uri, outcome) ==
    IF IsSparqlUri(uri)
    THEN load_data_sparql(ds, store, uri, outcome)
    ELSE load_data_file(ds, store, uri, outcome)

prompt_click == <<"C","l","i","c","k">>
prompt_toggle == <<"T","o","g","g","l","e">>

\* the load_graph callback (lines 347-356)
LoadGraph(uri) ==
    IF uri = None
    THEN /\ ret' = [op |-> "load", arg |-> uri, elements |-> no_update_list,
                    info |-> no_update_list, error |-> Out(""), labels |-> Out({})]
         /\ options' = {}
         /\ calls' = {}
         /\ fetched' = <<>>
         /\ UNCHANGED <<world, data_source, shown, history, race, owl_vars, o2_vars>>
    ELSE \E outcome \in LoadOutcomes(uri) :
            \E r \in {load_data(data_source, world, uri, outcome)} :
                /\ data_source' = r.ds
                /\ calls' = r.calls
                /\ fetched' = <<>>
                /\ IF r.message # ""
                   THEN /\ ret' = [op |-> "load", arg |-> uri, elements |-> Out(<<>>),
                                   info |-> Out(<< <<"H3", prompt_click, <<>> >> >>),
                                   error |-> Out(r.message), labels |-> Out({})]
                        /\ shown' = <<>>
                        /\ options' = {}
                   ELSE /\ ret' = [op |-> "load", arg |-> uri, elements |-> Out(r.elements),
                                   info |-> Out(<< <<"H3", prompt_toggle, <<>> >> >>),
                                   error |-> Out(""), labels |-> Out(r.class_labels)]
                        /\ shown' = r.elements
                        /\ options' = r.class_labels
                /\ UNCHANGED <<world, history, race, owl_vars, o2_vars>>

(***************************************************************************)
(* The search_class callback (lines 375-460).                              *)
(***************************************************************************)
SearchLimit == 10

\* xs without the later occurrences of a value (SELECT DISTINCT)
RECURSIVE Distinct(_)
Distinct(xs) ==
    IF Len(xs) = 0 THEN <<>>
    ELSE LET front == Distinct(SubSeq(xs, 1, Len(xs) - 1))
             last == xs[Len(xs)]
         IN  IF last \in Range(front) THEN front ELSE Append(front, last)

\* a slip: the exact query is never answered with a binding
sparql_exact_none(store, search_term) == <<>>

\* ?class rdfs:label "term" LIMIT 1
sparql_exact(store, search_term) ==
    LET Match(t) == t[2] = RDFS_label /\ t[3] = Literal(search_term)
    IN  Take(SelectSeq(store, Match), 1)

\* SELECT DISTINCT ?class { ?class rdfs:label ?label FILTER regex(?label, term, "i") } LIMIT 10
sparql_partial(store, search_term) ==
    LET Match(t) == /\ t[2] = RDFS_label
                    /\ t[3].kind = "lit"
                    /\ Contains(Lower(search_term), Lower(str(t[3])))
        hits == SelectSeq(store, Match)
    IN  Take(Distinct([i \in 1..Len(hits) |-> hits[i][1]]), SearchLimit)

SearchAnswers(ds) ==
    IF ds.type = "sparql" THEN {"ok", "exact_fails", "partial_fails"} ELSE {"ok"}

\* lines 379-431; answer says which request, if any, raises
search_sparql(ds, store, search_term, answer) ==
    LET exact == sparql_exact(store, search_term)
        partial == sparql_partial(store, search_term)
        one == << NodeElem(str(exact[1][1]), get_name(str(exact[1][1])), "node") >>
        many == [i \in 1..Len(partial) |->
                    NodeElem(str(partial[i]), get_name(str(partial[i])), "node")]
    IN  IF answer = "exact_fails"
        THEN [ds |-> ds, elements |-> no_update_list,
              message |-> "Error searching for exact match", calls |-> {"GET exact"}]
        ELSE IF Len(exact) > 0
        THEN [ds |-> [ds EXCEPT !.initial_elements = one, !.expanded_nodes = {}],
              elements |-> Out(one), message |-> "", calls |-> {"GET exact"}]
        ELSE IF answer = "partial_fails"
        THEN [ds |-> ds, elements |-> no_update_list,
              message |-> "Error searching for similar matches",
              calls |-> {"GET exact", "GET partial"}]
        ELSE IF Len(partial) > 0
        THEN [ds |-> [ds EXCEPT !.initial_elements = many, !.expanded_nodes = {}],
              elements |-> Out(many),
              message |-> "No exact match found. Displaying similar classes.",
              calls |-> {"GET exact", "GET partial"}]
        ELSE [ds |-> ds, elements |-> Out(<<>>), message |-> "No matching classes found.",
              calls |-> {"GET exact", "GET partial"}]

\* lines 433-460
search_file(ds, search_term) ==
    LET g == ds.graph
        Exact(t) == t[2] = RDFS_label /\ t[3] = Literal(search_term) /\ t[1].kind = "uri"
        exact == SelectSeq(g, Exact)
        Partial(t) == t[2] = RDFS_label /\ Contains(Lower(search_term), Lower(str(t[3])))
        partial == SelectSeq(g, Partial)
        one == << NodeElem(str(exact[1][1]), get_name(str(exact[1][1])), "node") >>
        many == [i \in 1..Len(partial) |->
                    NodeElem(str(partial[i][1]), str(partial[i][3]), "node")]
    IN  IF ~ds.has_graph \/ Len(g) = 0
        THEN [ds |-> ds, elements |-> Out(<<>>), message |-> "Graph not loaded.", calls |-> {}]
        ELSE IF Len(exact) > 0
        THEN [ds |-> [ds EXCEPT !.initial_elements = one, !.expanded_nodes = {}],
              elements |-> Out(one), message |-> "", calls |-> {}]
        ELSE IF Len(partial) > 0
        THEN [ds |-> [ds EXCEPT !.initial_elements = many, !.expanded_nodes = {}],
              elements |-> Out(many),
              message |-> "No exact match found. Displaying similar classes.",
              calls |-> {}]
        ELSE [ds |-> ds, elements |-> Out(<<>>), message |-> "No matching classes found.",
              calls |-> {}]

search_class(ds, store, search_term, answer) ==
    IF search_term = None \/ ds.uri = None
    THEN [ds |-> ds, elements |-> no_update_list,
          message |-> "Please enter a search term.", calls |-> {}]
    ELSE IF ds.type = "sparql"
    THEN search_sparql(ds, store, search_term, answer)
    ELSE search_file(ds, search_term)

SearchClass(search_term) ==
    \E answer \in SearchAnswers(data_source) :
        \E r \in {search_class(data_source, world, search_term, answer)} :
            /\ data_source' = r.ds
            /\ ret' = [op |-> "search", arg |-> search_term, elements |-> r.elements,
                       info |-> no_update_list, error |-> Out(r.message),
                       labels |-> no_update_labels]
            /\ shown' = IF r.elements.upd THEN r.elements.val ELSE shown
            /\ calls' = r.calls
            /\ fetched' = <<>>
            /\ UNCHANGED <<world, options, history, race, owl_vars, o2_vars>>

(***************************************************************************)
(* The display_related_nodes callback (lines 469-521).                     *)
(***************************************************************************)
\* a slip: the node is added and never removed
Toggle_addonly(expanded_nodes, node_id) == expanded_nodes \cup {node_id}

\* lines 476-479: toggle the expanded state of the clicked node
Toggle(expanded_nodes, node_id) ==
    IF node_id \in expanded_nodes
    THEN expanded_nodes \ {node_id}
    ELSE expanded_nodes \cup {node_id}

\* a slip: every fetched node element counts as new
IsNewId_always(elem, elements_ids) == TRUE

\* line 495: is this node element new to the list?
IsNewId(elem, elements_ids) == elem.data.id \notin elements_ids

\* a slip: the else branch is lost, and no edge is appended
RECURSIVE Merge_nodes_only(_, _, _)
Merge_nodes_only(all_elements, elements_ids, new_elements) ==
    IF Len(new_elements) = 0
    THEN [all_elements |-> all_elements, elements_ids |-> elements_ids]
    ELSE LET elem == Head(new_elements)
         IN  IF HasId(elem) /\ IsNewId(elem, elements_ids)
             THEN Merge_nodes_only(Append(all_elements, elem),
                                   elements_ids \cup {elem.data.id}, Tail(new_elements))
             ELSE Merge_nodes_only(all_elements, elements_ids, Tail(new_elements))

\* lines 493-499: merge new_elements into all_elements
RECURSIVE Merge(_, _, _)
Merge(all_elements, elements_ids, new_elements) ==
    IF Len(new_elements) = 0
    THEN [all_elements |-> all_elements, elements_ids |-> elements_ids]
    ELSE LET elem == Head(new_elements)
         IN  IF HasId(elem)
             THEN IF IsNewId(elem, elements_ids)
                  THEN Merge(Append(all_elements, elem),
                             elements_ids \cup {elem.data.id}, Tail(new_elements))
                  ELSE Merge(all_elements, elements_ids, Tail(new_elements))
             ELSE Merge(Append(all_elements, elem), elements_ids, Tail(new_elements))

\* lines 501-512: the info panel entries of the tapped node's outgoing edges
RECURSIVE EdgeInfo(_, _)
EdgeInfo(new_elements, node_id) ==
    IF Len(new_elements) = 0 THEN <<>>
    ELSE LET elem == Head(new_elements)
             mine == "source" \in DOMAIN elem.data /\ elem.data.source = node_id
         IN  (IF mine
              THEN << <<"Div", get_name(elem.data.label), get_name(elem.data.target)>> >>
              ELSE <<>>) \o EdgeInfo(Tail(new_elements), node_id)

\* lines 489-512: the loop over data_source['expanded_nodes'], visited in the
\* order given; answers[n] is what the outside world does with the fetch of n.
\* st.raised is set when a fetch raises, and the loop stops there.
RECURSIVE ExpandLoop(_, _, _, _, _, _)
ExpandLoop(ds, store, order, answers, node_id, st) ==
    IF Len(order) = 0 THEN st
    ELSE LET expanded_node_id == Head(order)
             r == get_related_nodes_for_expansion(ds, store, expanded_node_id,
                                                  answers[expanded_node_id])
             m == Merge(st.all_elements, st.elements_ids, r.elements)
         IN  IF r.raised
             THEN [st EXCEPT !.raised = TRUE,
                             !.log = Append(st.log, <<expanded_node_id, TRUE, <<>> >>)]
             ELSE ExpandLoop(ds, store, Tail(order), answers, node_id,
                    [st EXCEPT !.all_elements = m.all_elements,
                               !.elements_ids = m.elements_ids,
                               !.info_children =
                                    IF expanded_node_id = node_id
                                    THEN st.info_children \o EdgeInfo(r.elements, node_id)
                                    ELSE st.info_children,
                               !.log = Append(st.log,
                                    <<expanded_node_id, FALSE, r.elements>>)])

uri_prefix == <<"U","R","I",":"," ">>

display_related_nodes(ds, store, node_data, order, answers) ==
    LET node_id == node_data.id
        ds1 == [ds EXCEPT !.expanded_nodes = Toggle(ds.expanded_nodes, node_id)]
        st0 == [all_elements |-> ds1.initial_elements,
                elements_ids |-> IdsOf(ds1.initial_elements),
                info_children |-> << <<"H3", node_data.label, <<>> >>,
                                     <<"P", uri_prefix \o node_id, <<>> >> >>,
                log |-> <<>>,
                raised |-> FALSE]
        st == ExpandLoop(ds1, store, order, answers, node_id, st0)
    IN  IF st.raised
        THEN [ds |-> [ds1 EXCEPT !.expanded_nodes = ds1.expanded_nodes \ {node_id}],
              elements |-> no_update_list,
              info |-> Out(<< <<"H3", <<"E","r","r","o","r">>, <<>> >> >>),
              raised |-> TRUE, log |-> st.log]
        ELSE [ds |-> ds1, elements |-> Out(st.all_elements), info |-> Out(st.info_children),
              raised |-> FALSE, log |-> st.log]

\* the node data of the elements on display that can be tapped
Tappable == {shown[i].data : i \in {j \in 1..Len(shown) : HasId(shown[j])}}

\* the orders in which a set can be iterated
Orders(S) == {q \in [1..Cardinality(S) -> S] : \A i, j \in 1..Cardinality(S) : i # j => q[i] # q[j]}

\* the fetches of one tap: the store answers every fetch alike, and the
\* fail_at-th fetch raises (0: none does; only requests to an endpoint fail)
FetchPlans(ds, order) ==
    LET fails == IF StoreAnswers(ds) = {} THEN {1}
                 ELSE IF ds.type = "sparql" THEN 0..Len(order)
                 ELSE {0}
        answer == IF StoreAnswers(ds) = {} THEN {"raise"} ELSE StoreAnswers(ds)
    IN  { [n \in Range(order) |-> IF fail_at > 0 /\ order[fail_at] = n THEN "raise" ELSE a] :
            fail_at \in fails, a \in answer }

DisplayRelatedNodes(node_data) ==
    /\ node_data \in Tappable
    /\ Cardinality(Toggle(data_source.expanded_nodes, node_data.id)) <= MaxExpanded
    /\ \E order \in Orders(Toggle(data_source.expanded_nodes, node_data.id)) :
       \E answers \in FetchPlans(data_source, order) :
            \E r \in {display_related_nodes(data_source, world, node_data, order, answers)} :
                /\ data_source' = r.ds
                /\ ret' = [op |-> "tap", arg |-> node_data.id, elements |-> r.elements,
                           info |-> r.info, error |-> no_update_text,
                           labels |-> no_update_labels]
                /\ shown' = IF r.elements.upd THEN r.elements.val ELSE shown
                /\ calls' = IF data_source.type = "sparql" THEN {"store triples"} ELSE {}
                /\ fetched' = r.log
                /\ history' = IF history.on
                              THEN [history EXCEPT
                                        !.expanded_nodes = data_source.expanded_nodes,
                                        !.shown = shown,
                                        !.tapped = IF ret.op = "tap" /\ ret.elements.upd
                                                   THEN ret.arg ELSE None]
                              ELSE history
                /\ UNCHANGED <<world, options, race, owl_vars, o2_vars>>

(***************************************************************************)
(* The explorer: the state after the module is imported, and one action    *)
(* per callback.                                                           *)
(***************************************************************************)
\* the two generator scripts before they are run
GeneratorsIdle ==
    /\ owl_bindings = <<>> /\ owl_g = {} /\ owl_pc = "loop"
    /\ o2_pc = "start" /\ o2_http = "" /\ o2_n = 0 /\ o2_i = 0 /\ o2_row = <<>> /\ o2_adds = <<>>
    /\ o2_g = {} /\ o2_written = 0 /\ o2_ret = ""

\* data_source as line 30 sets it
data_source_0 ==
    [type |-> "none", uri |-> None, expanded_nodes |-> {},
     initial_elements |-> <<>>, class_labels |-> {},
     graph |-> <<>>, has_graph |-> FALSE]

\* no history is kept
history_off ==
    [on |-> FALSE, store_answer |-> "all", expanded_nodes |-> {}, shown |-> <<>>, tapped |-> None]

\* callbacks run one by one
race_off == [on |-> FALSE, expanded_0 |-> {}, tap |-> <<>>]

\* no callback has run yet
ret_0 ==
    [op |-> "none", arg |-> None, elements |-> no_update_list,
     info |-> no_update_list, error |-> no_update_text, labels |-> no_update_labels]

ExplorerStarts(worlds) ==
    /\ world \in worlds
    /\ data_source = data_source_0
    /\ shown = <<>>
    /\ options = {}
    /\ ret = ret_0
    /\ calls = {}
    /\ fetched = <<>>
    /\ history = history_off
    /\ race = race_off

Init == ExplorerStarts(Worlds) /\ GeneratorsIdle

Next ==
    \/ \E uri \in LoadURIs \cup {None} : LoadGraph(uri)
    \/ \E search_term \in options \cup {None} : SearchClass(search_term)
    \/ \E node_data \in Tappable : DisplayRelatedNodes(node_data)

Spec == Init /\ [][Next]_vars

(***************************************************************************)
(* Loading and searching alone, on graphs with more labels.                *)
(***************************************************************************)
InitSearch == ExplorerStarts(LabelWorlds) /\ GeneratorsIdle

NextSearch ==
    \/ \E uri \in LoadURIs \cup {None} : LoadGraph(uri)
    \/ \E search_term \in options \cup {None} : SearchClass(search_term)

SpecSearch == InitSearch /\ [][NextSearch]_vars

(***************************************************************************)
(* Searching with any value of search-input: terms that are a label, that  *)
(* are part of a label, that differ from one in case, and that match none. *)
(***************************************************************************)
SearchTerms ==
    { <<"c","a","t">>, <<"c","a","t","s">>, <<"D","O","G">>, <<"e","m","u">> }

NextTerm ==
    \/ \E uri \in LoadURIs \cup {None} : LoadGraph(uri)
    \/ \E search_term \in SearchTerms \cup {None} : SearchClass(search_term)

SpecTerm == InitSearch /\ [][NextTerm]_vars

(***************************************************************************)
(* Loading and tapping on a data source that does not change: the endpoint *)
(* answers every fetch it does not fail in the same way, and the state     *)
(* before each tap is remembered.                                          *)
(***************************************************************************)
\* graphs to tap: a class with one more neighbour
TapTripleU ==
    { <<nA, RDF_type, RDFS_Class>>,
      <<nA, rel, nB>> }

TapWorlds == DistinctSeqs(TapTripleU, MaxTapTriples)

InitTwice ==
    /\ world \in TapWorlds
    /\ data_source = data_source_0
    /\ shown = <<>>
    /\ options = {}
    /\ ret = ret_0
    /\ calls = {}
    /\ fetched = <<>>
    /\ history \in {[history_off EXCEPT !.on = TRUE, !.store_answer = a] : a \in {"all", "empty"}}
    /\ race = race_off
    /\ GeneratorsIdle

\* every fetch of the last tap that the endpoint answered, it answered as it always does
AnsweredAlike ==
    \A k \in 1..Len(fetched) :
        \/ fetched[k][2]
        \/ data_source.type # "sparql"
        \/ fetched[k][3] =
                ElementsOf(SparqlStoreTriples(world, fetched[k][1], history.store_answer))

NextTwice ==
    \/ \E uri \in LoadURIs : LoadGraph(uri)
    \/ \E node_data \in Tappable : DisplayRelatedNodes(node_data) /\ AnsweredAlike'

SpecTwice == InitTwice /\ [][NextTwice]_vars

(***************************************************************************)
(* Two display_related_nodes invocations served at once (the server        *)
(* handles requests in threads, and data_source is one module-level dict   *)
(* without a lock).  A step is one read or one write of                    *)
(* data_source['expanded_nodes']:                                          *)
(*   "test"          line 476: node_id in expanded_nodes                   *)
(*   "toggle"        line 477 or 479: remove(node_id) or add(node_id)      *)
(*   "loop"          line 490: the for statement takes an iterator         *)
(*   "next"          line 490: the iterator yields the next node, or       *)
(*                   raises RuntimeError when the set's size has changed   *)
(*   "except_test"   line 515: node_id in expanded_nodes                   *)
(*   "except_remove" line 516: remove(node_id)                             *)
(*   "done"          the callback has returned                             *)
(*   "raised"        set.remove raised KeyError, which no handler catches  *)
(* The fetches themselves succeed.                                         *)
(***************************************************************************)
Invocations == {"first", "second"}

\* the graph on display when the two taps arrive, and the nodes that can be tapped
RaceWorld == << <<nA, rel, nB>> >>
RaceLoaded == load_data(data_source_0, RaceWorld, uri_file, "ok")
RaceNodes == IdsOf(RaceLoaded.elements)

InitRace ==
    /\ world = RaceWorld
    /\ \E expanded_0 \in SUBSET RaceNodes :
        /\ data_source = [RaceLoaded.ds EXCEPT !.expanded_nodes = expanded_0]
        /\ \E tapped \in [Invocations -> RaceNodes] :
            race = [on |-> TRUE, expanded_0 |-> expanded_0,
                    tap |-> [t \in Invocations |->
                                [pc |-> "test", node_id |-> tapped[t], found |-> FALSE,
                                 size |-> 0, seen |-> {}, caught |-> FALSE]]]
    /\ shown = RaceLoaded.elements
    /\ options = RaceLoaded.class_labels
    /\ ret = ret_0
    /\ calls = {}
    /\ fetched = <<>>
    /\ history = history_off
    /\ GeneratorsIdle

RaceUnchanged == UNCHANGED <<world, shown, options, ret, calls, fetched, history, owl_vars, o2_vars>>

\* set.remove(node_id) by invocation t, which goes on to pc next: KeyError when node_id is gone
RaceRemove(t, next) ==
    IF race.tap[t].node_id \in data_source.expanded_nodes
    THEN /\ data_source' = [data_source EXCEPT !.expanded_nodes = @ \ {race.tap[t].node_id}]
         /\ race' = [race EXCEPT !.tap[t].pc = next]
    ELSE /\ race' = [race EXCEPT !.tap[t].pc = "raised"]
         /\ UNCHANGED data_source

\* line 476 and line 515
RaceTest(t) ==
    /\ race.on /\ race.tap[t].pc \in {"test", "except_test"}
    /\ race' = [race EXCEPT !.tap[t].found = race.tap[t].node_id \in data_source.expanded_nodes,
                            !.tap[t].pc = IF race.tap[t].pc = "test" THEN "toggle"
                                          ELSE "except_remove"]
    /\ UNCHANGED data_source
    /\ RaceUnchanged

\* lines 477 and 479
RaceToggle(t) ==
    /\ race.on /\ race.tap[t].pc = "toggle"
    /\ IF race.tap[t].found
       THEN RaceRemove(t, "loop")
       ELSE /\ data_source' = [data_source EXCEPT !.expanded_nodes = @ \cup {race.tap[t].node_id}]
            /\ race' = [race EXCEPT !.tap[t].pc = "loop"]
    /\ RaceUnchanged

\* line 490: iter(data_source['expanded_nodes'])
RaceLoop(t) ==
    /\ race.on /\ race.tap[t].pc = "loop"
    /\ race' = [race EXCEPT !.tap[t].pc = "next",
                            !.tap[t].size = Cardinality(data_source.expanded_nodes),
                            !.tap[t].seen = {}]
    /\ UNCHANGED data_source
    /\ RaceUnchanged

\* line 490: next() of the set iterator, and the body of the loop for the node it yields
RaceNext(t) ==
    /\ race.on /\ race.tap[t].pc = "next"
    /\ IF Cardinality(data_source.expanded_nodes) # race.tap[t].size
       THEN race' = [race EXCEPT !.tap[t].pc = "except_test", !.tap[t].caught = TRUE]
       ELSE IF data_source.expanded_nodes \subseteq race.tap[t].seen
       THEN race' = [race EXCEPT !.tap[t].pc = "done"]
       ELSE \E n \in data_source.expanded_nodes \ race.tap[t].seen :
                race' = [race EXCEPT !.tap[t].seen = @ \cup {n}]
    /\ UNCHANGED data_source
    /\ RaceUnchanged

\* line 516
RaceExceptRemove(t) ==
    /\ race.on /\ race.tap[t].pc = "except_remove"
    /\ IF race.tap[t].found
       THEN RaceRemove(t, "done")
       ELSE /\ race' = [race EXCEPT !.tap[t].pc = "done"]
            /\ UNCHANGED data_source
    /\ RaceUnchanged

NextRace ==
    \/ \E t \in Invocations : RaceTest(t)
    \/ \E t \in Invocations : RaceToggle(t)
    \/ \E t \in Invocations : RaceLoop(t)
    \/ \E t \in Invocations : RaceNext(t)
    \/ \E t \in Invocations : RaceExceptRemove(t)

SpecRace == InitRace /\ [][NextRace]_vars

(***************************************************************************)
(* Loading alone, from URIs that carry 'sparql' in every component.        *)
(***************************************************************************)
NextLoad == \E uri \in AllURIs \cup {None} : LoadGraph(uri)

SpecLoad == Init /\ [][NextLoad]_vars

(***************************************************************************)
(* get_related_nodes_for_expansion alone, called on a source that has been *)
(* loaded.                                                                 *)
(***************************************************************************)
InitFetch ==
    /\ world \in FetchWorlds
    /\ \E uri \in LoadURIs :
        \E r \in {load_data(data_source_0, world, uri, "ok")} :
            /\ data_source = r.ds
            /\ shown = r.elements
            /\ options = r.class_labels
            /\ ret = [op |-> "load", arg |-> uri, elements |-> Out(r.elements),
                      info |-> Out(<< <<"H3", prompt_toggle, <<>> >> >>),
                      error |-> Out(""), labels |-> Out(r.class_labels)]
            /\ calls = r.calls
    /\ fetched = <<>>
    /\ history = history_off
    /\ race = race_off
    /\ GeneratorsIdle

\* the ids a node element of the graph can carry
NodeIdsOf(store) == IdsOf(ElementsOf(store))

FetchRelated(node_id, answer) ==
    \E r \in {get_related_nodes_for_expansion(data_source, world, node_id, answer)} :
        /\ fetched' = << <<node_id, r.raised, r.elements>> >>
        /\ UNCHANGED <<world, data_source, shown, options, ret, calls, history, race, owl_vars, o2_vars>>

NextFetch ==
    \E node_id \in NodeIdsOf(world) :
        \E answer \in StoreAnswers(data_source) \cup
                      (IF data_source.type = "sparql" THEN {"raise"} ELSE {}) :
            FetchRelated(node_id, answer)

SpecFetch == InitFetch /\ [][NextFetch]_vars

(***************************************************************************)
(* get_initial_file_nodes alone, on graphs with more nodes than it takes.  *)
(***************************************************************************)
InitTop == ExplorerStarts(TopWorlds) /\ GeneratorsIdle

InitialFileNodes ==
    /\ ret.op = "none"
    /\ ret' = [ret EXCEPT !.op = "get_initial_file_nodes",
                          !.elements = Out(get_initial_file_nodes(world))]
    /\ UNCHANGED <<world, data_source, shown, options, calls, fetched, history, race, owl_vars, o2_vars>>

NextTop == InitialFileNodes

SpecTop == InitTop /\ [][NextTop]_vars

(***************************************************************************)
(* GenerateOWLfile.py: generate_owl_ontology(json_data).                   *)
(* A JSON member is absent, an object {"type": .., "value": v} or a list   *)
(* of such objects.                                                        *)
(***************************************************************************)
Absent == [k |-> "absent", value |-> <<>>, items |-> <<>>]
Obj(v) == [k |-> "obj", value |-> v, items |-> <<>>]
List(vs) == [k |-> "list", value |-> <<>>, items |-> vs]

OWL_Ontology == URIRef(<<"o","w","l","#","O","n","t","o","l","o","g","y">>)
OWL_imports == URIRef(<<"o","w","l","#","i","m","p","o","r","t","s">>)
OWL_Class == URIRef(<<"o","w","l","#","C","l","a","s","s">>)
OWL_ObjectProperty == URIRef(<<"o","w","l","#","O","b","j","e","c","t","P","r","o","p","e","r","t","y">>)
OWL_DatatypeProperty == URIRef(<<"o","w","l","#","D","a","t","a","t","y","p","e","P","r","o","p","e","r","t","y">>)
RDFS_comment == URIRef(<<"r","d","f","s","#","c","o","m","m","e","n","t">>)
RDFS_subClassOf == URIRef(<<"r","d","f","s","#","s","u","b","C","l","a","s","s","O","f">>)
RDFS_domain == URIRef(<<"r","d","f","s","#","d","o","m","a","i","n">>)
RDFS_range == URIRef(<<"r","d","f","s","#","r","a","n","g","e">>)
DCTERMS_creator == URIRef(<<"d","c","t","/","c","r","e","a","t","o","r">>)
LangLiteral(v, lang) == [kind |-> "lit", v |-> v, lang |-> lang]

\* lines 47-59: the ontology triple, its prefix and namespace, and the six imports
dsv_ontology_uri == URIRef(<<"d","s","v","-","o","n","t","o","l","o","g","y">>)
OwlHeader ==
    { <<dsv_ontology_uri, RDF_type, OWL_Ontology>>,
      <<dsv_ontology_uri, URIRef(<<"v","a","n","n","/","p","r","e","f","e","r","r","e","d","N","a","m","e","s","p","a","c","e","P","r","e","f","i","x">>), Literal(<<"d","s","v","-","o","n","t","o","l","o","g","y">>)>>,
      <<dsv_ontology_uri, URIRef(<<"v","a","n","n","/","p","r","e","f","e","r","r","e","d","N","a","m","e","s","p","a","c","e","U","r","i">>), URIRef(<<"d","s","v","-","o","n","t","o","l","o","g","y","#">>)>>,
      <<dsv_ontology_uri, OWL_imports, URIRef(<<"c","u","b","e","#">>)>>,
      <<dsv_ontology_uri, OWL_imports, URIRef(<<"c","s","v","w","#">>)>>,
      <<dsv_ontology_uri, OWL_imports, URIRef(<<"b","i","b","o","/">>)>>,
      <<dsv_ontology_uri, OWL_imports, URIRef(<<"e","v","e","n","t",".","o","w","l","#">>)>>,
      <<dsv_ontology_uri, OWL_imports, URIRef(<<"s","k","o","s","/","c","o","r","e","#">>)>>,
      <<dsv_ontology_uri, OWL_imports, URIRef(<<"f","o","a","f","/","0",".","1","/">>)>> }

tClass == <<"C","l","a","s","s">>
tObjectProperty == <<"O","b","j","e","c","t","P","r","o","p","e","r","t","y">>
tDatatypeProperty == <<"D","a","t","a","t","y","p","e","P","r","o","p","e","r","t","y">>
tAnnotationProperty == <<"A","n","n","o","t","a","t","i","o","n","P","r","o","p","e","r","t","y">>
tNamedIndividual == <<"N","a","m","e","d","I","n","d","i","v","i","d","u","a","l">>

\* the bindings the JSON data is made of
OwlTypes == {Absent, Obj(tClass), Obj(tObjectProperty), Obj(tDatatypeProperty),
             Obj(tAnnotationProperty), Obj(tNamedIndividual)}
OwlSubClassOfs == {Absent, Obj(<<"s","1">>), List(<<Obj(<<"s","1">>), Obj(<<"s","2">>)>>)}
OwlRest ==
    { [label |-> Obj(<<"L">>), comment |-> Obj(<<"C">>), domain |-> Obj(<<"d","1">>), range |-> Obj(<<"r","1">>)],
      [label |-> Absent, comment |-> Absent, domain |-> List(<<Obj(<<"d","1">>), Obj(<<"d","2">>)>>),
       range |-> Absent] }
OwlBindings ==
    { [entity |-> Obj(<<"e","1">>), type |-> t, label |-> o.label, comment |-> o.comment,
       subClassOf |-> sc, domain |-> o.domain, range |-> o.range] :
        t \in OwlTypes, sc \in OwlSubClassOfs, o \in OwlRest }

\* binding.get(key, {}).get("value"): a list has no .get and raises AttributeError
GetRaises(member) == member.k = "list"
\* the value, or None (here the empty string, as falsy as None)
GetValue(member) == IF member.k = "obj" THEN member.value ELSE <<>>

\* a slip: the DatatypeProperty branch copied from the ObjectProperty one
OwlType_copied(entity_type_value) ==
    IF entity_type_value = tClass THEN <<OWL_Class>>
    ELSE IF entity_type_value = tObjectProperty THEN <<OWL_ObjectProperty>>
    ELSE IF entity_type_value = tDatatypeProperty THEN <<OWL_ObjectProperty>>
    ELSE <<>>

\* lines 68-80: the rdf type of the entity, in a one-element tuple; the
\* empty tuple when the binding is skipped
OwlType(entity_type_value) ==
    IF entity_type_value = tAnnotationProperty THEN <<>>
    ELSE IF entity_type_value = tClass THEN <<OWL_Class>>
    ELSE IF entity_type_value = tObjectProperty THEN <<OWL_ObjectProperty>>
    ELSE IF entity_type_value = tDatatypeProperty THEN <<OWL_DatatypeProperty>>
    ELSE <<>>

RangeOfItems(member) == {member.items[i] : i \in 1..Len(member.items)}

\* lines 63-111: one pass of the loop body; the graph after it, and whether it raised
owl_binding(g, binding) ==
    LET entity_uri == URIRef(GetValue(binding.entity))
        rdf_type == OwlType(GetValue(binding.type))
        isProp == rdf_type \in {<<OWL_ObjectProperty>>, <<OWL_DatatypeProperty>>}
        g1 == g \cup {<<entity_uri, RDF_type, rdf_type[1]>>}
        label == GetValue(binding.label)
        g2 == IF label # <<>>
              THEN g1 \cup {<<entity_uri, RDFS_label, LangLiteral(label, "en")>>} ELSE g1
        comment == GetValue(binding.comment)
        g3 == IF comment # <<>>
              THEN g2 \cup {<<entity_uri, RDFS_comment, LangLiteral(comment, "en")>>} ELSE g2
        sub_class_of_value == GetValue(binding.subClassOf)
        g4 == IF sub_class_of_value # <<>>
              THEN g3 \cup {<<entity_uri, RDFS_subClassOf, URIRef(sub_class_of_value)>>} ELSE g3
        g5 == IF binding.subClassOf.k = "list"
              THEN g4 \cup {<<entity_uri, RDFS_subClassOf, URIRef(GetValue(item))>> :
                                item \in RangeOfItems(binding.subClassOf)}
              ELSE g4
        domain_value == GetValue(binding.domain)
        g6 == IF domain_value # <<>> /\ isProp
              THEN g5 \cup {<<entity_uri, RDFS_domain, URIRef(domain_value)>>} ELSE g5
        range_value == GetValue(binding.range)
        g7 == IF range_value # <<>> /\ isProp
              THEN g6 \cup {<<entity_uri, RDFS_range, URIRef(range_value)>>} ELSE g6
    IN  IF GetRaises(binding.type) \/ GetRaises(binding.entity)
        THEN [g |-> g, raised |-> TRUE]
        ELSE IF rdf_type = <<>> THEN [g |-> g, raised |-> FALSE]
        ELSE IF GetRaises(binding.label) THEN [g |-> g1, raised |-> TRUE]
        ELSE IF GetRaises(binding.comment) THEN [g |-> g2, raised |-> TRUE]
        ELSE IF GetRaises(binding.subClassOf) THEN [g |-> g3, raised |-> TRUE]
        ELSE IF GetRaises(binding.domain) THEN [g |-> g5, raised |-> TRUE]
        ELSE IF GetRaises(binding.range) THEN [g |-> g6, raised |-> TRUE]
        ELSE [g |-> g7, raised |-> FALSE]

InitOwl ==
    /\ ExplorerStarts({<<>>})
    /\ owl_bindings = <<>> /\ owl_g = OwlHeader /\ owl_pc = "loop"
    /\ o2_pc = "start" /\ o2_http = "" /\ o2_n = 0 /\ o2_i = 0 /\ o2_row = <<>> /\ o2_adds = <<>>
    /\ o2_g = {} /\ o2_written = 0 /\ o2_ret = ""

\* the loop reads the next binding of json_data
OwlBinding(binding) ==
    /\ owl_pc = "loop"
    /\ Len(owl_bindings) < MaxBindings
    /\ \E r \in {owl_binding(owl_g, binding)} :
        /\ owl_g' = r.g
        /\ owl_pc' = IF r.raised THEN "raised" ELSE "loop"
    /\ owl_bindings' = Append(owl_bindings, binding)
    /\ UNCHANGED <<explorer_vars, o2_vars>>

\* line 114: the bindings are exhausted and the graph is serialized
OwlSerialize ==
    /\ owl_pc = "loop"
    /\ owl_pc' = "done"
    /\ UNCHANGED <<owl_bindings, owl_g, explorer_vars, o2_vars>>

NextOwl ==
    \/ \E binding \in OwlBindings : OwlBinding(binding)
    \/ OwlSerialize

SpecOwl == InitOwl /\ [][NextOwl]_vars

(***************************************************************************)
(* GenerateOWLFile2.py: run_sparql_query_and_build_graph().                *)
(***************************************************************************)
\* lines 65-69: the ontology and its annotations
sshoc_ontology_uri == URIRef(<<"S","S","H","O","C","-","N","L","-","o","n","t","o","l","o","g","y",".","o","w","l">>)
O2Header ==
    { <<sshoc_ontology_uri, RDF_type, OWL_Ontology>>,
      <<sshoc_ontology_uri, RDFS_label, Literal(<<"S","S","H","O","C","-","N","L"," ","o","n","t","o","l","o","g","y">>)>>,
      <<sshoc_ontology_uri, RDFS_comment, Literal(<<"d","o","c","u","m","e","n","t","a","t","i","o","n">>)>>,
      <<sshoc_ontology_uri, DCTERMS_creator, Literal(<<"A","n","d","r","e"," ","V","a","l","d","e","s","t","i","l","h","a","s">>)>> }

\* the rows a response is made of: ?entity is bound in every row, the other
\* variables are bound or not
O2Rows ==
    { [entity |-> Obj(<<"e","1">>), type |-> t, label |-> l, comment |-> c,
       subClassOf |-> sc, domain |-> d, range |-> r] :
        t \in {Absent, Obj(<<"o","w","l","#","C","l","a","s","s">>), Obj(<<"r","d","f","s","#","C","l","a","s","s">>)},
        l \in {Absent, Obj(<<"L">>)}, c \in {Absent, Obj(<<"C">>)},
        sc \in {Absent, Obj(<<"s","1">>)}, d \in {Absent, Obj(<<"p","1">>)}, r \in {Absent, Obj(<<"p","2">>)} }

\* 'key' in row
InRow(member) == member.k # "absent"

\* a slip: the subClassOf test nested under the label test
row_adds_nested(row) ==
    LET entity_uri == URIRef(row.entity.value)
    IN  (IF InRow(row.type)
         THEN << <<entity_uri, RDF_type, URIRef(row.type.value)>> >>
         ELSE << <<entity_uri, RDF_type, OWL_Class>> >>)
        \o (IF InRow(row.label)
            THEN << <<entity_uri, RDFS_label, Literal(row.label.value)>> >> ELSE <<>>)
        \o (IF InRow(row.comment)
            THEN << <<entity_uri, RDFS_comment, Literal(row.comment.value)>> >> ELSE <<>>)
        \o (IF InRow(row.label) /\ InRow(row.subClassOf)
            THEN << <<entity_uri, RDFS_subClassOf, URIRef(row.subClassOf.value)>> >> ELSE <<>>)
        \o (IF InRow(row.domain)
            THEN << <<URIRef(row.domain.value), RDFS_domain, entity_uri>> >> ELSE <<>>)
        \o (IF InRow(row.range)
            THEN << <<URIRef(row.range.value), RDFS_range, entity_uri>> >> ELSE <<>>)

\* lines 73-98: the g.add calls of one row, in order
row_adds(row) ==
    LET entity_uri == URIRef(row.entity.value)
    IN  (IF InRow(row.type)
         THEN << <<entity_uri, RDF_type, URIRef(row.type.value)>> >>
         ELSE << <<entity_uri, RDF_type, OWL_Class>> >>)
        \o (IF InRow(row.label)
            THEN << <<entity_uri, RDFS_label, Literal(row.label.value)>> >> ELSE <<>>)
        \o (IF InRow(row.comment)
            THEN << <<entity_uri, RDFS_comment, Literal(row.comment.value)>> >> ELSE <<>>)
        \o (IF InRow(row.subClassOf)
            THEN << <<entity_uri, RDFS_subClassOf, URIRef(row.subClassOf.value)>> >> ELSE <<>>)
        \o (IF InRow(row.domain)
            THEN << <<URIRef(row.domain.value), RDFS_domain, entity_uri>> >> ELSE <<>>)
        \o (IF InRow(row.range)
            THEN << <<URIRef(row.range.value), RDFS_range, entity_uri>> >> ELSE <<>>)

\* a slip: the save indented into the loop
RowsDone_early(i, n) == TRUE

\* line 73: the loop over bindings has ended
RowsDone(i, n) == i >= n

InitO2 ==
    /\ ExplorerStarts({<<>>})
    /\ GeneratorsIdle

\* lines 52-59, 62-72: the request, and the graph with its annotations.
\* "failed": a RequestException; "bad": the body is not the JSON expected
\* and the exception is not caught.
O2Request(outcome, n) ==
    /\ o2_pc = "start"
    /\ IF outcome = "failed"
       THEN /\ o2_http' = "failed" /\ o2_ret' = "None" /\ o2_pc' = "done"
            /\ UNCHANGED <<o2_n, o2_g>>
       ELSE IF outcome = "bad"
       THEN /\ o2_http' = "ok" /\ o2_pc' = "raised"
            /\ UNCHANGED <<o2_n, o2_g, o2_ret>>
       ELSE /\ o2_http' = "ok" /\ o2_pc' = "map" /\ o2_n' = n /\ o2_g' = O2Header
            /\ UNCHANGED o2_ret
    /\ UNCHANGED <<o2_i, o2_row, o2_adds, o2_written, explorer_vars, owl_vars>>

\* lines 73-98: the loop maps the next row
O2MapRow(row) ==
    /\ o2_pc = "map"
    /\ ~RowsDone(o2_i, o2_n)
    /\ o2_adds' = row_adds(row)
    /\ o2_g' = o2_g \cup Range(row_adds(row))
    /\ o2_row' = row
    /\ o2_i' = o2_i + 1
    /\ UNCHANGED <<o2_pc, o2_http, o2_n, o2_written, o2_ret, explorer_vars, owl_vars>>

\* lines 100-108: the graph is saved; a failed save may have touched the file
O2Serialize(ok, touched) ==
    /\ o2_pc = "map"
    /\ RowsDone(o2_i, o2_n)
    /\ o2_pc' = "done"
    /\ o2_ret' = IF ok THEN "True" ELSE "False"
    /\ o2_written' = IF ok \/ touched THEN o2_written + 1 ELSE o2_written
    /\ UNCHANGED <<o2_http, o2_n, o2_i, o2_row, o2_adds, o2_g, explorer_vars, owl_vars>>

NextO2 ==
    \/ \E outcome \in {"ok", "failed", "bad"}, n \in 0..MaxRows : O2Request(outcome, n)
    \/ \E row \in O2Rows : O2MapRow(row)
    \/ \E ok, touched \in BOOLEAN : O2Serialize(ok, touched)

SpecO2 == InitO2 /\ [][NextO2]_vars

(***************************************************************************)
(* Properties.                                                             *)
(***************************************************************************)
\* no two node elements (elements with an 'id') of the list share an id
DistinctNodeIds(elements) ==
    \A i, j \in 1..Len(elements) :
        (i # j /\ HasId(elements[i]) /\ HasId(elements[j]))
            => elements[i].data.id # elements[j].data.id

\* C1: when the node ids of data_source['initial_elements'] are pairwise
\* distinct, the element list a tap returns holds at most one node element
\* per id, whatever nodes are expanded.
C1_MergeAddsNoDuplicateId ==
    (ret.op = "tap" /\ ret.elements.upd /\ DistinctNodeIds(data_source.initial_elements))
        => DistinctNodeIds(ret.elements.val)

\* a tap that fetched a node id the list already held
C1_Witness ==
    /\ ret.op = "tap" /\ ret.elements.upd
    /\ DistinctNodeIds(data_source.initial_elements)
    /\ Cardinality(data_source.expanded_nodes) = 2
    /\ \E k \in 1..Len(fetched) : \E i \in 1..Len(fetched[k][3]) :
            /\ HasId(fetched[k][3][i])
            /\ fetched[k][3][i].data.id \in IdsOf(data_source.initial_elements)

\* C2: after a successful load or search, the element list stored in
\* data_source['initial_elements'] holds no two node elements with the same id.
C2_NoDuplicateInitialIds ==
    (/\ ret.op \in {"load", "search"}
     /\ ret.elements.upd
     /\ ret.elements.val = data_source.initial_elements
     /\ ret.error.val \in {"", "No exact match found. Displaying similar classes."})
        => DistinctNodeIds(data_source.initial_elements)

\* C3: a tap on node n that raises nothing flips n's membership in
\* data_source['expanded_nodes'] and leaves every other node's membership as it was.
C3_TapFlipsOnlyTapped ==
    [][ (ret'.op = "tap" /\ ret'.elements.upd)
            => /\ (ret'.arg \in data_source'.expanded_nodes)
                    <=> (ret'.arg \notin data_source.expanded_nodes)
               /\ \A n \in (data_source.expanded_nodes \cup data_source'.expanded_nodes) \ {ret'.arg} :
                    (n \in data_source'.expanded_nodes) <=> (n \in data_source.expanded_nodes)
      ]_vars

\* a tap that collapsed a node while another one stayed expanded
C3_Witness ==
    /\ ret.op = "tap" /\ ret.elements.upd
    /\ ret.arg \notin data_source.expanded_nodes
    /\ data_source.expanded_nodes # {}

\* the elements of the triples of the source that have node_id as subject or
\* object; a literal node stands for the object of its triple
NeighbourElements(store, node_id) ==
    LET idx == {i \in 1..Len(store) :
                    \/ store[i][1] = URIRef(node_id)
                    \/ store[i][3] = URIRef(node_id)
                    \/ /\ store[i][3].kind # "uri"
                       /\ TripleElements(store[i])[2].data.id = node_id}
    IN  UNION {Range(TripleElements(store[i])) : i \in idx}

\* C4: every element get_related_nodes_for_expansion(node_id) returns comes
\* from a triple of the data source with node_id as its subject or object,
\* in 'sparql' and in 'file' mode.
C4_FetchesOnlyNeighbours ==
    \A k \in 1..Len(fetched) :
        \A i \in 1..Len(fetched[k][3]) :
            fetched[k][3][i] \in NeighbourElements(world, fetched[k][1])

\* C9: load_data sets data_source['type'] to 'sparql' exactly when the
\* lower-cased path or query of the URI contains 'sparql', and to 'file'
\* otherwise; a 'sparql' load parses no file, a 'file' load sends no request.
C9_TypeFromUri ==
    (ret.op = "load" /\ ret.arg # None)
        => LET parsed == urlparse(ret.arg)
               in_path_or_query == \/ Contains(sparql, Lower(parsed.path))
                                   \/ Contains(sparql, Lower(parsed.query))
           IN  /\ data_source.uri = ret.arg
               /\ in_path_or_query => (data_source.type = "sparql" /\ "parse" \notin calls)
               /\ ~in_path_or_query => (data_source.type = "file" /\ calls \subseteq {"parse"})

\* a load of a URI with 'sparql' in upper case or in the query only
C9_Witness ==
    /\ ret.op = "load" /\ ret.arg \notin LoadURIs \cup {None}
    /\ data_source.type = "sparql"
    /\ "GET initial nodes" \in calls

\* C5: for a binding whose 'subClassOf' is a list of {type, value} objects,
\* generate_owl_ontology completes normally and the graph it returns holds
\* (entity, rdfs:subClassOf, value) for every entry of the list.
C5_SubClassOfListHandled ==
    \A i \in 1..Len(owl_bindings) :
        owl_bindings[i].subClassOf.k = "list"
            => /\ owl_pc # "raised"
               /\ owl_pc = "done"
                    => \A item \in RangeOfItems(owl_bindings[i].subClassOf) :
                            <<URIRef(owl_bindings[i].entity.value), RDFS_subClassOf,
                              URIRef(item.value)>> \in owl_g

\* the rdf:type triple the claim gives a binding of one of the three types
C6_TypeTriple(binding) ==
    LET t == binding.type.value
    IN  << URIRef(binding.entity.value), RDF_type,
           IF t = tClass THEN OWL_Class
           ELSE IF t = tObjectProperty THEN OWL_ObjectProperty
           ELSE OWL_DatatypeProperty >>

\* C6: a binding whose type value is 'Class', 'ObjectProperty' or
\* 'DatatypeProperty' puts exactly the rdf:type triple with owl:Class,
\* owl:ObjectProperty or owl:DatatypeProperty into the graph; a binding
\* whose type is 'AnnotationProperty', missing or anything else adds no triple.
C6_TypeTriplePerBinding ==
    [][ (owl_pc = "loop" /\ Len(owl_bindings') = Len(owl_bindings) + 1)
            => LET binding == owl_bindings'[Len(owl_bindings')]
               IN  IF /\ binding.type.k = "obj"
                      /\ binding.type.value \in {tClass, tObjectProperty, tDatatypeProperty}
                   THEN /\ C6_TypeTriple(binding) \in owl_g'
                        /\ \A t \in owl_g' \ owl_g :
                                t[2] = RDF_type => t = C6_TypeTriple(binding)
                   ELSE owl_g' = owl_g
      ]_vars

\* a DatatypeProperty binding was read after a skipped one
C6_Witness ==
    /\ Len(owl_bindings) = 2
    /\ owl_bindings[1].type = Obj(tAnnotationProperty)
    /\ owl_bindings[2].type = Obj(tDatatypeProperty)
    /\ <<URIRef(owl_bindings[2].entity.value), RDF_type, OWL_DatatypeProperty>> \in owl_g
    /\ owl_pc = "done"

\* C7: SSHOC-NL_ontology.owl is written at most once per run, and only after
\* the request succeeded and every row was mapped; when the request fails
\* the function returns None and writes no file.
C7_WrittenOnceAfterMapping ==
    /\ o2_written <= 1
    /\ o2_written = 1 => (o2_http = "ok" /\ o2_i = o2_n /\ o2_pc = "done")
    /\ o2_http = "failed" => (o2_ret = "None" /\ o2_written = 0 /\ o2_pc = "done" /\ o2_i = 0)

\* a run that mapped two rows and saved the file
C7_Witness ==
    /\ o2_written = 1 /\ o2_ret = "True" /\ o2_i >= 2

\* C8: every row adds (entity, rdf:type, T), T the row's 'type' or owl:Class
\* when 'type' is absent; the triple of label, comment, subClassOf, domain or
\* range is added if and only if the row has that field.
C8_RowTriples ==
    o2_i > 0 =>
        LET row == o2_row
            e == URIRef(row.entity.value)
            added == Range(o2_adds)
            present == {f \in {"label", "comment", "subClassOf", "domain", "range"} :
                            row[f].k # "absent"}
        IN  /\ added \subseteq o2_g
            /\ <<e, RDF_type, IF row.type.k = "absent" THEN OWL_Class
                              ELSE URIRef(row.type.value)>> \in added
            /\ (<<e, RDFS_label, Literal(row.label.value)>> \in added) <=> ("label" \in present)
            /\ (<<e, RDFS_comment, Literal(row.comment.value)>> \in added) <=> ("comment" \in present)
            /\ (<<e, RDFS_subClassOf, URIRef(row.subClassOf.value)>> \in added)
                    <=> ("subClassOf" \in present)
            /\ (<<URIRef(row.domain.value), RDFS_domain, e>> \in added) <=> ("domain" \in present)
            /\ (<<URIRef(row.range.value), RDFS_range, e>> \in added) <=> ("range" \in present)
            /\ Cardinality(added) = 1 + Cardinality(present)

\* a row without type and label, with subClassOf and domain
C8_Witness ==
    /\ o2_i > 0
    /\ o2_row.type.k = "absent" /\ o2_row.label.k = "absent"
    /\ o2_row.subClassOf.k = "obj" /\ o2_row.domain.k = "obj"
    /\ <<URIRef(o2_row.entity.value), RDF_type, OWL_Class>> \in o2_g

\* the nodes get_initial_file_nodes counts, and how often
CountedNodes(g) ==
    {g[i][1] : i \in 1..Len(g)} \cup {g[i][3] : i \in {j \in 1..Len(g) : g[j][3].kind = "uri"}}
CountOf(g, node) ==
    Cardinality({i \in 1..Len(g) : g[i][1] = node})
        + Cardinality({i \in 1..Len(g) : g[i][3] = node /\ g[i][3].kind = "uri"})

\* C10: get_initial_file_nodes returns min(5, number of counted nodes) node
\* elements with pairwise distinct ids, and no node left out counts more
\* than a node returned.
C10_MostFrequentNodes ==
    ret.op = "get_initial_file_nodes" =>
        LET elements == ret.elements.val
            counted == CountedNodes(world)
            ids == IdsOf(elements)
        IN  /\ Len(elements) = (IF Cardinality(counted) < 5 THEN Cardinality(counted) ELSE 5)
            /\ \A i \in 1..Len(elements) : HasId(elements[i])
            /\ DistinctNodeIds(elements)
            /\ \A id \in ids : \E node \in counted : str(node) = id
            /\ \A inside, outside \in counted :
                    (str(inside) \in ids /\ str(outside) \notin ids)
                        => CountOf(world, inside) >= CountOf(world, outside)

\* more than five nodes were counted, and one with a count of two comes
\* later in the graph than one that is left out
C10_Witness ==
    /\ ret.op = "get_initial_file_nodes"
    /\ Cardinality(CountedNodes(world)) > 5
    /\ \E node \in CountedNodes(world) :
            /\ CountOf(world, node) = 2
            /\ str(node) \in IdsOf(ret.elements.val)
            /\ world[1][1] # node /\ world[1][3] # node /\ world[2][1] # node /\ world[2][3] # node

\* some URI subject of g has an rdfs:label equal to the term
ExactExists(g, term) ==
    \E i \in 1..Len(g) :
        g[i][2] = RDFS_label /\ g[i][3] = Literal(term) /\ g[i][1].kind = "uri"

\* some rdfs:label of g contains the term, case-insensitively
PartialExists(g, term) ==
    \E i \in 1..Len(g) :
        g[i][2] = RDFS_label /\ Contains(Lower(term), Lower(str(g[i][3])))

\* the source a search looks into: the endpoint, or the parsed graph
SourceLoaded ==
    \/ data_source.type = "sparql"
    \/ data_source.type = "file" /\ data_source.has_graph

msg_similar == "No exact match found. Displaying similar classes."
msg_none == "No matching classes found."
msg_errors == {"Error searching for exact match", "Error searching for similar matches"}

\* the three parts of the precedence of exact over partial matches, for a
\* search that was answered (answered = TRUE: in every case)
ExactBeforePartial(answered) ==
    (ret.op = "search" /\ ret.arg # None /\ SourceLoaded)
        => /\ (ExactExists(world, ret.arg) /\ answered)
                => /\ ret.elements.upd /\ Len(ret.elements.val) = 1
                   /\ ret.error.val = ""
           /\ ret.error.val = msg_similar
                => ~ExactExists(world, ret.arg) /\ PartialExists(world, ret.arg)
           /\ (ret.error.val = msg_none /\ ret.elements = Out(<<>>))
                => ~ExactExists(world, ret.arg) /\ ~PartialExists(world, ret.arg)

C12_LoadShowsErrorOrGraph ==
    [][ (ret'.op = "load" /\ ret'.arg # None)
            => \E outcome \in LoadOutcomes(ret'.arg) :
               \E r \in {load_data(data_source, world, ret'.arg, outcome)} :
                    /\ calls' = r.calls
                    /\ IF r.message # ""
                       THEN /\ ret'.elements = Out(<<>>)
                            /\ ret'.error = Out(r.message)
                            /\ ret'.labels = Out({})
                       ELSE /\ ret'.error = Out("")
                            /\ ret'.elements = Out(data_source'.initial_elements)
                            /\ ret'.elements = Out(r.elements)
      ]_vars

\* a load that failed after an earlier one had put elements into the source
C12_Witness ==
    /\ ret.op = "load" /\ ret.arg # None
    /\ ret.error.upd /\ ret.error.val # ""
    /\ ret.elements = Out(<<>>) /\ ret.labels = Out({})
    /\ data_source.initial_elements # <<>>

\* C13: two successive taps on the same node, neither of which meets a fetch
\* error, on a data source that does not change: the second tap restores
\* data_source['expanded_nodes'] to its value before the first and returns
\* the same set of elements as was on display before the first; what it
\* returns is what the initial elements and the nodes still expanded
\* contribute, nothing more and nothing less.
C13_TwoTapsRestore ==
    [][ (/\ history'.on
         /\ ret.op = "tap" /\ ret.elements.upd
         /\ ret'.op = "tap" /\ ret'.elements.upd
         /\ ret'.arg = ret.arg)
            => /\ data_source'.expanded_nodes = history.expanded_nodes
               /\ Range(ret'.elements.val) = Range(history.shown)
               /\ {fetched'[k][1] : k \in 1..Len(fetched')} = data_source'.expanded_nodes
               /\ \A e \in Range(ret'.elements.val) :
                    \/ e \in Range(data_source'.initial_elements)
                    \/ \E k \in 1..Len(fetched') : e \in Range(fetched'[k][3])
               /\ \A e \in Range(data_source'.initial_elements)
                            \cup UNION {Range(fetched'[k][3]) : k \in 1..Len(fetched')} :
                    \/ e \in Range(ret'.elements.val)
                    \/ HasId(e) /\ e.data.id \in IdsOf(ret'.elements.val)
      ]_vars

\* a node was expanded and at once collapsed again while another node stays
\* expanded: elements went, and the other node's are still there
C13_Witness ==
    /\ history.on
    /\ ret.op = "tap" /\ ret.elements.upd
    /\ history.tapped = ret.arg
    /\ ret.arg \notin data_source.expanded_nodes
    /\ data_source.expanded_nodes # {}
    /\ Len(ret.elements.val) < Len(history.shown)
    /\ Len(ret.elements.val) > Len(data_source.initial_elements)

\* both invocations are over: returned, or ended by an exception
RaceOver == race.on /\ \A t \in Invocations : race.tap[t].pc \in {"done", "raised"}

\* what the two taps leave when they run one after the other; the order does not matter
RaceSerial ==
    Toggle(Toggle(race.expanded_0, race.tap["first"].node_id), race.tap["second"].node_id)

\* C14: for every interleaving of two display_related_nodes invocations (on
\* the same node or on different nodes) at the grain of their reads and
\* writes of data_source['expanded_nodes'], neither invocation raises, and
\* the final expanded_nodes is what the two taps leave when run one after
\* the other in some order.
C14_TapsAsIfSingleThreaded ==
    /\ race.on => \A t \in Invocations : race.tap[t].pc # "raised"
    /\ RaceOver => data_source.expanded_nodes = RaceSerial

\* C15: when a fetch raises during a tap, for the tapped node or for another
\* expanded node, the tap has no effect: data_source['expanded_nodes'] is
\* what it was before the call, the graph elements are not updated
\* (no_update), and only the info panel shows the error.
C15_FailedTapHasNoEffect ==
    [][ (ret'.op = "tap" /\ \E k \in 1..Len(fetched') : fetched'[k][2])
            => /\ data_source'.expanded_nodes = data_source.expanded_nodes
               /\ ret'.elements = no_update_list
               /\ shown' = shown
               /\ ret'.info.upd
               /\ ret'.error = no_update_text
      ]_vars

====
